---- MODULE Spec2Model ----
(***************************************************************************)
(* A model of pypredict-mcp (src/src/pypredict_mcp/main.py): the cached    *)
(* lookup tools, the weather lookup and the transit computation.           *)
(*                                                                         *)
(* Texts (HTTP bodies, element sets) are sequences of chunks; a chunk is a *)
(* piece of text that the code's string operations treat as a unit.        *)
(* Instants are integers: seconds since the epoch.                         *)
(***************************************************************************)
EXTENDS Integers, Sequences, FiniteSets, TLC

VARIABLES
    now,            \* the clock: time.time() and the caches' time.monotonic()
    tz,             \* the host's time zone, read by datetime.fromtimestamp
    geocode_api_key,\* settings.geocode_api_key
    name_cache,     \* the LRUCache of get_name_from_norad_id
    id_cache,       \* the LRUCache of get_norad_id_from_name
    tle_cache,      \* the TTLCache of get_tle
    wx_cache,       \* the LRUCache of get_weather_forecast
    geo_cache,      \* the LRUCache of get_latitude_longitude_from_location_name
    last,           \* the last completed tool invocation and its outcome
    hist,           \* history of the lookups, kept for the statements only
    ticks,          \* how often the clock has advanced
    pc,             \* concurrent invocations: each one's position
    job             \* concurrent invocations: each one's operation and locals

vars == <<now, tz, geocode_api_key, name_cache, id_cache, tle_cache, wx_cache,
          geo_cache, last, hist, ticks, pc, job>>

(***************************************************************************)
(* Bounds of the model and constants of the program.                       *)
(***************************************************************************)
\* LRUCache(maxsize=100), TTLCache(maxsize=100, ...)
maxsize == 100
\* TTLCache(..., ttl=60 * 60 * 2)
ttl == 60 * 60 * 2
\* the clock advances at most this often
MaxTicks == 3
\* the steps by which the clock advances: half the ttl
TickSteps == {ttl \div 2}
\* the catalog ids the tools are called with: the oldest entry of a warm cache
\* and an id no warm cache holds
CallIds == {1, maxsize + 1}
\* the ids a warm cache holds, in the order they were fetched: a full cache
WarmIds == 1..maxsize

(***************************************************************************)
(* Sequences and texts.                                                    *)
(***************************************************************************)
Range(s) == {s[i] : i \in 1..Len(s)}

\* str.__contains__: the sentinel is one chunk of the body
Contains(text, chunk) == chunk \in Range(text)

\* str.replace(chunk, "")
Remove(text, chunk) == LET keep(c) == c # chunk IN SelectSeq(text, keep)

Whitespace == {" ", "\n", "\t", "\r"}

\* str.rstrip()
\* an rstrip() that leaves the text as it is
rstrip_none(text) == text

RECURSIVE rstrip(_)
rstrip(text) ==
    IF text = <<>> THEN <<>>
    ELSE IF text[Len(text)] \in Whitespace THEN rstrip(SubSeq(text, 1, Len(text) - 1))
    ELSE text

\* str.startswith(chunk)
startswith(text, chunk) == text # <<>> /\ Head(text) = chunk

(***************************************************************************)
(* cachetools: an LRUCache is the sequence of its entries, least recently  *)
(* used first.                                                             *)
(***************************************************************************)
Keys(c) == {c[i].key : i \in 1..Len(c)}

IndexOf(c, k) == CHOOSE i \in 1..Len(c) : c[i].key = k

Entry(c, k) == c[IndexOf(c, k)]

Without(c, k) == LET keep(e) == e.key # k IN SelectSeq(c, keep)

\* a cache whose hits leave the order alone: first in, first out
lru_touch_fifo(c, k) == c

\* LRUCache.__getitem__ on a hit: the entry moves to the most recent end
lru_touch(c, k) == IF k \in Keys(c) THEN Without(c, k) \o <<Entry(c, k)>> ELSE c

\* Cache.popitem until there is room: the least recently used entries go
RECURSIVE make_room(_)
make_room(c) == IF Len(c) + 1 > maxsize THEN make_room(Tail(c)) ELSE c

\* LRUCache.__setitem__
lru_setitem(c, k, v) ==
    IF k \in Keys(c) THEN Without(c, k) \o <<[key |-> k, value |-> v]>>
    ELSE make_room(c) \o <<[key |-> k, value |-> v]>>

(***************************************************************************)
(* cachetools: a TTLCache is the sequence of its entries in the order of   *)
(* __links (least recently used first), each with the time it expires.     *)
(***************************************************************************)
\* a cache that still serves an entry at the instant it expires
expired_late(e, t) == ~(t <= e.expires)

\* the entry of k has expired at time t: not (timer() < link.expires)
expired(e, t) == ~(t < e.expires)

\* TTLCache.__getitem__ finds a value: the key is there and has not expired
ttl_hit(c, k, t) == k \in Keys(c) /\ ~expired(Entry(c, k), t)

\* TTLCache.__getlink: a looked up key moves to the end of __links
ttl_getlink(c, k) == lru_touch(c, k)

\* TTLCache.expire(time)
expire(c, t) == LET live(e) == ~expired(e, t) IN SelectSeq(c, live)

\* TTLCache.__setitem__: expire, make room, store with a new expiry
ttl_setitem(c, k, v, t) ==
    LET c1 == expire(c, t)
        e  == [key |-> k, value |-> v, expires |-> t + ttl]
    IN  IF k \in Keys(c1) THEN Without(c1, k) \o <<e>>
        ELSE make_room(c1) \o <<e>>

(***************************************************************************)
(* The outcome of running a function body: a value or a raised error.      *)
(***************************************************************************)
Return(v) == [kind |-> "return", value |-> v]
Raise(type, msg) == [kind |-> "raise", value |-> [type |-> type, msg |-> msg]]

\* a memoizer that stores what a call raised as well
lru_cached_raised(c, k, out) ==
    IF k \in Keys(c)
    THEN [cache |-> lru_touch(c, k), out |-> Return(Entry(c, k).value), http |-> 0]
    ELSE [cache |-> lru_setitem(c, k, out.value), out |-> out, http |-> 1]

\* cachetools.cached over an LRUCache: cache and outcome after one call
lru_cached(c, k, out) ==
    IF k \in Keys(c)
    THEN [cache |-> lru_touch(c, k), out |-> Return(Entry(c, k).value), http |-> 0]
    ELSE IF out.kind = "raise"
    THEN [cache |-> c, out |-> out, http |-> 1]
    ELSE [cache |-> lru_setitem(c, k, out.value), out |-> out, http |-> 1]

\* cachetools.cached over a TTLCache
ttl_cached(c, k, t, out) ==
    IF ttl_hit(c, k, t)
    THEN [cache |-> ttl_getlink(c, k), out |-> Return(Entry(c, k).value), http |-> 0]
    ELSE IF out.kind = "raise"
    THEN [cache |-> ttl_getlink(c, k), out |-> out, http |-> 1]
    ELSE [cache |-> ttl_setitem(ttl_getlink(c, k), k, out.value, t), out |-> out,
          http |-> 1]

(***************************************************************************)
(* get_tle.                                                                *)
(***************************************************************************)
\* the bodies the element source answers with
TleBodies ==
    { <<"1 25544U", "\r", "\n", "2 25544", "\r", "\n">>,
      <<"1 25544U", "\n", "2 25544">>,
      <<"No data found">>,
      <<"GP data: ", "No data found", "\r", "\n">>,
      <<"Error:", " ", "invalid query">> }

\* what httpx.get does: a response, or a transport error raised by httpx
TleResponses ==
    [error : {FALSE}, status_code : {200}, text : TleBodies]
        \cup [error : {FALSE}, status_code : {500}, text : {<<>>, <<"No data found">>}]
        \cup {[error |-> TRUE, status_code |-> 0, text |-> <<>>]}

\* the body of get_tle
tle_body(norad_id, response) ==
    IF response.error THEN Raise("ConnectError", [text |-> "httpx.ConnectError", arg |-> norad_id,
                                                   status_code |-> 0])
    ELSE IF response.status_code # 200
    THEN Raise("APIError", [text |-> "Unable to fetch TLE for NORAD ID", arg |-> norad_id,
                            status_code |-> response.status_code])
    ELSE IF Contains(response.text, "No data found")
    THEN Raise("NoDataFoundError", [text |-> "No TLE data found for NORAD ID",
                                    arg |-> norad_id, status_code |-> 200])
    ELSE Return(rstrip(Remove(response.text, "\r")))


(***************************************************************************)
(* The satellite catalog: get_name_from_norad_id, get_norad_id_from_name.  *)
(* A name is a sequence of characters.                                     *)
(***************************************************************************)
ISS == <<"I", "S", "S">>
NOAA == <<"N", "O", "A", "A">>
Oasis == <<"O", "a", "s", "i", "s">>

\* one record of a catalog response
Sat(name, id) == [OBJECT_NAME |-> name, NORAD_CAT_ID |-> id]

\* the JSON arrays the catalog answers with
CatalogLists ==
    { <<>>,
      <<Sat(ISS, 25544)>>,
      <<Sat(NOAA, 25338), Sat(ISS, 25544)>>,
      <<Sat(Oasis, 40000), Sat(NOAA, 25338), Sat(ISS, 25544)>> }

CatalogResponses ==
    [error : {FALSE}, status_code : {200}, json : CatalogLists]
        \cup [error : {FALSE}, status_code : {404}, json : {<<>>, <<Sat(ISS, 25544)>>}]
        \cup {[error |-> TRUE, status_code |-> 0, json |-> <<>>]}

ErrMsg(text, arg, status_code) == [text |-> text, arg |-> arg, status_code |-> status_code]

\* the body of get_name_from_norad_id
name_body(norad_id, response) ==
    IF response.error THEN Raise("ConnectError", ErrMsg("httpx.ConnectError", norad_id, 0))
    ELSE IF response.status_code # 200
    THEN Raise("APIError", ErrMsg("Unable to fetch satellite data. Status code:",
                                  norad_id, response.status_code))
    ELSE IF response.json = <<>>
    THEN Raise("NoDataFoundError", ErrMsg("No satellite found for NORAD ID", norad_id, 200))
    ELSE Return(response.json[1].OBJECT_NAME)

\* str.lower() on a character
LowerChar(ch) ==
    CASE ch = "I" -> "i" [] ch = "S" -> "s" [] ch = "N" -> "n"
      [] ch = "O" -> "o" [] ch = "A" -> "a" [] OTHER -> ch

\* a lower() that leaves the text as it is
lower_none(text) == text

\* str.lower()
lower(text) == [i \in 1..Len(text) |-> LowerChar(text[i])]

\* a in b, for strings
IsSubstring(a, b) ==
    \E i \in 0..(Len(b) - Len(a)) : SubSeq(b, i + 1, i + Len(a)) = a

\* str(NORAD_CAT_ID)
str(n) ==
    CASE n = 25544 -> "25544" [] n = 25338 -> "25338" [] n = 40000 -> "40000"
      [] OTHER -> "?"

\* [str(sat["NORAD_CAT_ID"]) for sat in satcat_data
\*      if name.lower() in sat["OBJECT_NAME"].lower()]
RECURSIVE matching_ids(_, _)
matching_ids(name, satcat_data) ==
    IF satcat_data = <<>> THEN <<>>
    ELSE LET sat == Head(satcat_data)
             rest == matching_ids(name, Tail(satcat_data))
         IN  IF IsSubstring(lower(name), lower(sat.OBJECT_NAME))
             THEN <<str(sat.NORAD_CAT_ID)>> \o rest
             ELSE rest

\* ", ".join(results)
RECURSIVE join(_)
join(results) ==
    IF Len(results) <= 1 THEN results
    ELSE <<Head(results), ", ">> \o join(Tail(results))

\* the body of get_norad_id_from_name
ids_body(name, response) ==
    IF response.error THEN Raise("ConnectError", ErrMsg("httpx.ConnectError", name, 0))
    ELSE IF response.status_code # 200
    THEN Raise("APIError", ErrMsg("Unable to fetch satellite data. Status code:",
                                  name, response.status_code))
    ELSE LET results == matching_ids(name, response.json)
         IN  IF results = <<>>
             THEN Raise("NoDataFoundError",
                        ErrMsg("No satellite found with name containing", name, 200))
             ELSE Return(join(results))

(***************************************************************************)
(* Geocoding: get_latitude_longitude_from_location_name.                   *)
(***************************************************************************)
Place(lat, lon) == [lat |-> lat, lon |-> lon]

GeocodeLists ==
    { <<>>,
      <<Place("38.89", "-77.03")>>,
      <<Place("51.50", "-0.12"), Place("38.89", "-77.03")>> }

GeocodeResponses ==
    [error : {FALSE}, status_code : {200}, json : GeocodeLists]
        \cup {[error |-> FALSE, status_code |-> 401, json |-> <<>>],
              [error |-> TRUE, status_code |-> 0, json |-> <<>>]}

\* the body of get_latitude_longitude_from_location_name; its http field tells
\* whether the body got as far as its HTTP request
geocode_body(location_name, key, response) ==
    IF key = ""
    THEN [out |-> Raise("ConfigurationError",
                        ErrMsg("GEOCODE_API_KEY is not set in the environment variables.",
                               location_name, 0)),
          http |-> 0]
    ELSE [out |->
            IF response.error
            THEN Raise("ConnectError", ErrMsg("httpx.ConnectError", location_name, 0))
            ELSE IF response.status_code # 200
            THEN Raise("APIError", ErrMsg("Unable to fetch location data. Status code:",
                                          location_name, response.status_code))
            ELSE IF response.json = <<>>
            THEN Raise("NoDataFoundError",
                       ErrMsg("No location data found for", location_name, 200))
            ELSE Return(<<"Latitude: ", response.json[1].lat, ", Longitude: ",
                          response.json[1].lon>>),
          http |-> 1]

(***************************************************************************)
(* The weather: get_weather_forecast.  A time_dt is a naive datetime, in    *)
(* seconds; its hour bucket stands for strftime("%Y-%m-%dT%H:00").          *)
(***************************************************************************)
\* time_dt.strftime("%Y-%m-%dT%H:00")
hour_str(time_dt) == time_dt \div (60 * 60)

\* the JSON documents the weather source answers with: one that does not parse,
\* ones that lack a field, and hourly lists
WeatherData ==
    [parses : {TRUE}, has_hourly : {TRUE}, has_time : {TRUE}, has_cloud_cover : {TRUE},
     time : {<<0, 1, 2, 3>>, <<2, 3>>},
     cloud_cover : {<<"10", "50", "90", "None">>, <<"10">>}]
    \cup
    {[parses |-> FALSE, has_hourly |-> FALSE, has_time |-> FALSE,
      has_cloud_cover |-> FALSE, time |-> <<>>, cloud_cover |-> <<>>],
     [parses |-> TRUE, has_hourly |-> FALSE, has_time |-> FALSE,
      has_cloud_cover |-> FALSE, time |-> <<>>, cloud_cover |-> <<>>],
     [parses |-> TRUE, has_hourly |-> TRUE, has_time |-> FALSE,
      has_cloud_cover |-> TRUE, time |-> <<>>, cloud_cover |-> <<"10">>],
     [parses |-> TRUE, has_hourly |-> TRUE, has_time |-> TRUE,
      has_cloud_cover |-> FALSE, time |-> <<0, 1, 2, 3>>, cloud_cover |-> <<>>]}

NoData == CHOOSE d \in WeatherData : ~d.parses

FullDay ==
    CHOOSE d \in WeatherData :
        d.has_time /\ d.has_cloud_cover /\ Len(d.time) = 4 /\ Len(d.cloud_cover) = 4

WeatherResponses ==
    [error : {FALSE}, status_code : {200}, data : WeatherData]
        \cup {[error |-> FALSE, status_code |-> 503, data |-> NoData],
              [error |-> TRUE, status_code |-> 0, data |-> NoData]}

\* list.index(x): the first position of x
index(list, x) == CHOOSE i \in 1..Len(list) : list[i] = x /\ \A j \in 1..(i - 1) : list[j] # x

\* a body with one message for every failure
weather_body_generic(latitude, longitude, time_dt, response) ==
    IF \/ response.error
       \/ response.status_code # 200
       \/ ~response.data.parses
       \/ ~response.data.has_hourly
       \/ ~response.data.has_time
       \/ ~response.data.has_cloud_cover
       \/ hour_str(time_dt) \notin Range(response.data.time)
    THEN Return(<<"An error occurred while fetching weather: ", "Exception">>)
    ELSE LET i == index(response.data.time, hour_str(time_dt))
         IN  IF i > Len(response.data.cloud_cover)
             THEN Return(<<"An error occurred while fetching weather: ", "Exception">>)
             ELSE Return(<<response.data.cloud_cover[i], "% cloud cover">>)

\* a body whose handlers miss the status error
weather_body_unhandled(latitude, longitude, time_dt, response) ==
    IF response.error
    THEN Return(<<"An error occurred while fetching weather: ", "ConnectError">>)
    ELSE IF response.status_code # 200
    THEN Raise("HTTPStatusError", ErrMsg("httpx.HTTPStatusError", time_dt,
                                         response.status_code))
    ELSE Return(<<"Weather data not available.">>)

\* the body of get_weather_forecast: every path returns a string
weather_body(latitude, longitude, time_dt, response) ==
    IF response.error
    THEN Return(<<"An error occurred while fetching weather: ", "ConnectError">>)
    ELSE IF response.status_code # 200
    THEN Return(<<"Weather API request failed: ", "HTTPStatusError">>)
    ELSE IF ~response.data.parses
    THEN Return(<<"An error occurred while fetching weather: ", "JSONDecodeError">>)
    ELSE IF \/ ~response.data.has_hourly
            \/ ~response.data.has_time
            \/ ~response.data.has_cloud_cover
    THEN Return(<<"Weather data not available.">>)
    ELSE IF hour_str(time_dt) \notin Range(response.data.time)
    THEN Return(<<"Forecast for the specific hour not found.">>)
    ELSE LET i == index(response.data.time, hour_str(time_dt))
         IN  IF i > Len(response.data.cloud_cover)
             THEN Return(<<"Forecast for the specific hour not found.">>)
             ELSE Return(<<response.data.cloud_cover[i], "% cloud cover">>)

\* the key of get_weather_forecast's cache: its arguments
weather_key(latitude, longitude, time_dt) == <<latitude, longitude, time_dt>>

(***************************************************************************)
(* The propagation source: predict.transits yields passes; a pass is the   *)
(* trace of its samples (epoch, elevation, azimuth) in time order.         *)
(***************************************************************************)
\* the position of the highest sample, the first of them
peak_index(samples) ==
    CHOOSE i \in 1..Len(samples) :
        /\ \A j \in 1..Len(samples) : samples[j].elevation <= samples[i].elevation
        /\ \A j \in 1..(i - 1) : samples[j].elevation < samples[i].elevation

\* transit.above(angle): the stretch around the peak at or above the angle; a pass
\* that never reaches the angle shrinks to its peak
above(samples, angle) ==
    LET p == peak_index(samples)
        high(i) == samples[i].elevation >= angle
        lo == CHOOSE i \in 1..p :
                /\ \A j \in i..p : high(j)
                /\ (i > 1 => ~high(i - 1))
        hi == CHOOSE i \in p..Len(samples) :
                /\ \A j \in p..i : high(j)
                /\ (i < Len(samples) => ~high(i + 1))
    IN  IF ~high(p) THEN <<samples[p]>> ELSE SubSeq(samples, lo, hi)

\* t.start, t.end, t.duration(), t.peak() of a clipped pass t (t._samples)
start(t) == t[1].epoch
end(t) == t[Len(t)].epoch
duration(t) == end(t) - start(t)
peak(t) == t[peak_index(t)]

\* datetime.fromtimestamp(epoch): the naive local time of the host. The zone "dst"
\* sets its clocks back by an hour, from two hours ahead of UTC to one, an hour
\* after the epoch.
utcoffset(epoch) ==
    IF tz = "utc" THEN 0
    ELSE IF epoch < 60 * 60 THEN 2 * 60 * 60 ELSE 60 * 60

fromtimestamp(epoch) == epoch + utcoffset(epoch)

(***************************************************************************)
(* get_transits.                                                           *)
(***************************************************************************)
\* a test that lets a pass of no duration through
skipped_negative(t) == duration(t) < 0

\* the loop's test: a clipped pass with no duration is skipped
skipped(t) == duration(t) <= 0

\* Transit(...): the window reported for a clipped pass
\* a window whose two end azimuths are taken from the wrong ends
Transit_swapped(t, weather_forecast) ==
    [start_time |-> fromtimestamp(start(t)),
     end_time |-> fromtimestamp(end(t)),
     duration_seconds |-> duration(t),
     max_elevation |-> peak(t).elevation,
     culmination_time |-> fromtimestamp(peak(t).epoch),
     start_azimuth |-> t[Len(t)].azimuth,
     max_elevation_azimuth |-> peak(t).azimuth,
     end_azimuth |-> t[1].azimuth,
     weather_forecast |-> weather_forecast]

Transit(t, weather_forecast) ==
    [start_time |-> fromtimestamp(start(t)),
     end_time |-> fromtimestamp(end(t)),
     duration_seconds |-> duration(t),
     max_elevation |-> peak(t).elevation,
     culmination_time |-> fromtimestamp(peak(t).epoch),
     start_azimuth |-> t[1].azimuth,
     max_elevation_azimuth |-> peak(t).azimuth,
     end_azimuth |-> t[Len(t)].azimuth,
     weather_forecast |-> weather_forecast]

\* a loop that reports a window only when its forecast was found
RECURSIVE transit_loop_dropping(_, _, _, _, _, _)
transit_loop_dropping(transits, angle, latitude, longitude, cache, responses) ==
    IF transits = <<>> THEN [results |-> <<>>, cache |-> cache, calls |-> 0, http |-> 0]
    ELSE LET t == above(Head(transits), angle)
             culmination_time == fromtimestamp(peak(t).epoch)
             w == lru_cached(cache, weather_key(latitude, longitude, culmination_time),
                             weather_body(latitude, longitude, culmination_time,
                                          Head(responses)))
             rest == transit_loop_dropping(Tail(transits), angle, latitude, longitude,
                                           IF skipped(t) THEN cache ELSE w.cache,
                                           Tail(responses))
         IN  IF skipped(t) THEN rest
             ELSE [results |-> IF Len(w.out.value) = 2 /\ w.out.value[2] = "% cloud cover"
                               THEN <<Transit(t, w.out.value)>> \o rest.results
                               ELSE rest.results,
                   cache |-> rest.cache,
                   calls |-> 1 + rest.calls,
                   http |-> w.http + rest.http]

\* a loop that puts each window in front of the ones before it
RECURSIVE transit_loop_reversed(_, _, _, _, _, _)
transit_loop_reversed(transits, angle, latitude, longitude, cache, responses) ==
    IF transits = <<>> THEN [results |-> <<>>, cache |-> cache, calls |-> 0, http |-> 0]
    ELSE LET t == above(Head(transits), angle)
             culmination_time == fromtimestamp(peak(t).epoch)
             w == lru_cached(cache, weather_key(latitude, longitude, culmination_time),
                             weather_body(latitude, longitude, culmination_time,
                                          Head(responses)))
             rest == transit_loop_reversed(Tail(transits), angle, latitude, longitude,
                                           IF skipped(t) THEN cache ELSE w.cache,
                                           Tail(responses))
         IN  IF skipped(t) THEN rest
             ELSE [results |-> rest.results \o <<Transit(t, w.out.value)>>,
                   cache |-> rest.cache,
                   calls |-> 1 + rest.calls,
                   http |-> w.http + rest.http]

\* the loop over the passes: the windows, the weather cache afterwards, the number
\* of calls of get_weather_forecast and the number of weather requests;
\* responses[i] is what the weather source would answer for the i-th pass
RECURSIVE transit_loop(_, _, _, _, _, _)
transit_loop(transits, angle, latitude, longitude, cache, responses) ==
    IF transits = <<>> THEN [results |-> <<>>, cache |-> cache, calls |-> 0, http |-> 0]
    ELSE LET t == above(Head(transits), angle)
         IN  IF skipped(t)
             THEN transit_loop(Tail(transits), angle, latitude, longitude, cache,
                               Tail(responses))
             ELSE LET culmination_time == fromtimestamp(peak(t).epoch)
                      w == lru_cached(cache,
                                      weather_key(latitude, longitude, culmination_time),
                                      weather_body(latitude, longitude, culmination_time,
                                                   Head(responses)))
                      rest == transit_loop(Tail(transits), angle, latitude, longitude,
                                           w.cache, Tail(responses))
                  IN  [results |-> <<Transit(t, w.out.value)>> \o rest.results,
                       cache |-> rest.cache,
                       calls |-> 1 + rest.calls,
                       http |-> w.http + rest.http]

\* a body that answers a failed get_tle with no windows
transits_body_swallowing(tle, angle, latitude, longitude, transits, cache, responses) ==
    LET l == transit_loop(transits, angle, latitude, longitude, cache, responses)
    IN  IF tle.kind = "raise"
        THEN [out |-> Return(<<>>), returns |-> "list", propagated |-> FALSE,
              cache |-> cache, calls |-> 0, http |-> 0]
        ELSE [out |-> Return(l.results), returns |-> "list", propagated |-> TRUE,
              cache |-> l.cache, calls |-> l.calls, http |-> l.http]

\* the body of get_transits after get_tle has come back with the outcome tle: what
\* it returns or raises (returns: "list", "str" or "raise"), whether the
\* propagation source was called, and the weather cache, calls and requests
transits_body(tle, angle, latitude, longitude, transits, cache, responses) ==
    IF tle.kind = "raise"
    THEN [out |-> tle, returns |-> "raise", propagated |-> FALSE, cache |-> cache,
          calls |-> 0, http |-> 0]
    ELSE IF startswith(tle.value, "Error:")
    THEN [out |-> tle, returns |-> "str", propagated |-> FALSE, cache |-> cache,
          calls |-> 0, http |-> 0]
    ELSE LET l == transit_loop(transits, angle, latitude, longitude, cache, responses)
         IN  [out |-> Return(l.results), returns |-> "list", propagated |-> TRUE,
              cache |-> l.cache, calls |-> l.calls, http |-> l.http]

(***************************************************************************)
(* The tools: each action is one invocation, through the tool's cache.     *)
(***************************************************************************)
\* the element set a warm cache holds for every id
WarmTle == <<"1 25544U", "\n", "2 25544">>

\* the history of a cached tool per key: its last successful fetch (tle) or use
\* (name), the time and value of it, the other keys looked up since, and the last
\* time since that the key was served from the cache
NeverFetched == [ok |-> FALSE, at |-> 0, value |-> <<>>]

NeverHit == [ok |-> FALSE, at |-> 0]

NoHist == [fetched |-> NeverFetched, since |-> {}, hit |-> NeverHit]

\* get_tle: the history restarts at each successful HTTP fetch of the id
tle_note(h, norad_id, r, t) ==
    [i \in DOMAIN h |->
        IF i = norad_id
        THEN IF r.http = 1 /\ r.out.kind = "return"
             THEN [fetched |-> [ok |-> TRUE, at |-> t, value |-> r.out.value], since |-> {},
                   hit |-> NeverHit]
             ELSE IF r.http = 0 THEN [h[i] EXCEPT !.hit = [ok |-> TRUE, at |-> t]]
             ELSE h[i]
        ELSE [h[i] EXCEPT !.since = @ \cup {norad_id}]]

\* get_name_from_norad_id: the history restarts at each successful call for the id
name_note(h, norad_id, r, t) ==
    [i \in DOMAIN h |->
        IF i = norad_id
        THEN IF r.out.kind = "return"
             THEN [fetched |-> [ok |-> TRUE, at |-> t, value |-> r.out.value], since |-> {},
                   hit |-> NeverHit]
             ELSE h[i]
        ELSE [h[i] EXCEPT !.since = @ \cup {norad_id}]]

\* no request was made, so no response was read
NoResponse == [error |-> FALSE, status_code |-> 0, text |-> <<>>]

\* get_tle(norad_id): the tool, through its cache
get_tle(norad_id, response) ==
    LET r == ttl_cached(tle_cache, norad_id, now, tle_body(norad_id, response))
    IN  /\ tle_cache' = r.cache
        /\ last' = [op |-> "get_tle", key |-> norad_id, out |-> r.out, http |-> r.http,
                    at |-> now, pre |-> hist.tle[norad_id],
                    response |-> IF r.http = 1 THEN response ELSE NoResponse,
                    seq |-> 1 - last.seq]
        /\ hist' = [hist EXCEPT !.tle = tle_note(@, norad_id, r, now)]
        /\ UNCHANGED <<now, tz, geocode_api_key, name_cache, id_cache, wx_cache,
                       geo_cache, ticks, pc, job>>

\* get_name_from_norad_id(norad_id): the tool, through its cache
get_name_from_norad_id(norad_id, response) ==
    LET r == lru_cached(name_cache, norad_id, name_body(norad_id, response))
    IN  /\ name_cache' = r.cache
        /\ last' = [op |-> "get_name_from_norad_id", key |-> norad_id, out |-> r.out,
                    http |-> r.http, at |-> now, pre |-> hist.name[norad_id],
                    response |-> response, seq |-> 1 - last.seq]
        /\ hist' = [hist EXCEPT !.name = name_note(@, norad_id, r, now)]
        /\ UNCHANGED <<now, tz, geocode_api_key, id_cache, tle_cache, wx_cache,
                       geo_cache, ticks, pc, job>>

\* get_norad_id_from_name(name): the tool, through its cache
get_norad_id_from_name(name, response) ==
    LET r == lru_cached(id_cache, name, ids_body(name, response))
    IN  /\ id_cache' = r.cache
        /\ last' = [op |-> "get_norad_id_from_name", key |-> name, out |-> r.out,
                    http |-> r.http, at |-> now, response |-> response,
                    seq |-> 1 - last.seq]
        /\ UNCHANGED <<now, tz, geocode_api_key, name_cache, tle_cache, wx_cache,
                       geo_cache, hist, ticks, pc, job>>

\* get_latitude_longitude_from_location_name(location_name): the tool, through its
\* cache
get_latitude_longitude_from_location_name(location_name, response) ==
    LET body == geocode_body(location_name, geocode_api_key, response)
        r == lru_cached(geo_cache, location_name, body.out)
    IN  /\ geo_cache' = r.cache
        /\ last' = [op |-> "get_latitude_longitude_from_location_name",
                    key |-> location_name, out |-> r.out,
                    http |-> IF r.http = 0 THEN 0 ELSE body.http, at |-> now,
                    api_key |-> geocode_api_key, response |-> response,
                    seq |-> 1 - last.seq]
        /\ UNCHANGED <<now, tz, geocode_api_key, name_cache, id_cache, tle_cache,
                       wx_cache, hist, ticks, pc, job>>

\* settings.geocode_api_key is given another value: settings is a module-level
\* object whose fields can be assigned while the tools are in use
set_geocode_api_key(key) ==
    /\ key # geocode_api_key
    /\ geocode_api_key' = key
    /\ UNCHANGED <<now, tz, name_cache, id_cache, tle_cache, wx_cache, geo_cache, last,
                   hist, ticks, pc, job>>

\* get_weather_forecast(latitude, longitude, time_dt): the tool, through its cache
get_weather_forecast(latitude, longitude, time_dt, response) ==
    LET r == lru_cached(wx_cache, weather_key(latitude, longitude, time_dt),
                        weather_body(latitude, longitude, time_dt, response))
    IN  /\ wx_cache' = r.cache
        /\ last' = [op |-> "get_weather_forecast",
                    key |-> weather_key(latitude, longitude, time_dt), out |-> r.out,
                    http |-> r.http, at |-> now, response |-> response,
                    seq |-> 1 - last.seq]
        /\ UNCHANGED <<now, tz, geocode_api_key, name_cache, id_cache, tle_cache,
                       geo_cache, hist, ticks, pc, job>>

\* get_transits(norad_id, latitude, longitude, angle_above_horizon): the tool.
\* response is the element source's answer, transits what the propagation source
\* yields for the next 24 hours, responses the weather source's answers.
get_transits(norad_id, latitude, longitude, angle_above_horizon, response, transits, responses) ==
    LET g == ttl_cached(tle_cache, norad_id, now, tle_body(norad_id, response))
        b == transits_body(g.out, angle_above_horizon, latitude, longitude, transits,
                           wx_cache, responses)
    IN  /\ tle_cache' = g.cache
        /\ wx_cache' = b.cache
        /\ last' = [op |-> "get_transits", key |-> norad_id, out |-> b.out,
                    returns |-> b.returns, tle |-> g.out, http |-> g.http,
                    propagated |-> b.propagated, weather_calls |-> b.calls,
                    weather_http |-> b.http,
                    angle |-> angle_above_horizon, transits |-> transits,
                    at |-> now, seq |-> 1 - last.seq]
        /\ hist' = [hist EXCEPT !.tle = tle_note(@, norad_id, g, now)]
        /\ UNCHANGED <<now, tz, geocode_api_key, name_cache, id_cache, geo_cache,
                       ticks, pc, job>>

\* time passes
Tick(d) ==
    /\ ticks < MaxTicks
    /\ now' = now + d
    /\ ticks' = ticks + 1
    /\ UNCHANGED <<tz, geocode_api_key, name_cache, id_cache, tle_cache, wx_cache,
                   geo_cache, last, hist, pc, job>>

(***************************************************************************)
(* The initial states: the process has just started (cold), or it has      *)
(* answered one successful lookup for each of WarmIds, in that order, all  *)
(* within its first second (warm).                                         *)
(***************************************************************************)
WarmTleCache == [i \in WarmIds |-> [key |-> i, value |-> WarmTle, expires |-> ttl]]

WarmNameCache == [i \in WarmIds |-> [key |-> i, value |-> ISS]]

\* the history of a warm cache whose entries all hold the value v
WarmHist(v) ==
    [i \in CallIds |->
        IF i \in WarmIds
        THEN [fetched |-> [ok |-> TRUE, at |-> 0, value |-> v],
              since |-> {j \in WarmIds : j > i}, hit |-> NeverHit]
        ELSE NoHist]

ColdHist == [i \in CallIds |-> NoHist]

NoCall == [op |-> "none", seq |-> 0]

\* what every initial state has in common
Started ==
    /\ now = 0
    /\ ticks = 0
    /\ last = NoCall
    /\ id_cache = <<>>
    /\ wx_cache = <<>>
    /\ geo_cache = <<>>
    /\ pc = <<>>
    /\ job = <<>>

InitTle ==
    /\ Started
    /\ tz = "utc"
    /\ geocode_api_key = "key"
    /\ name_cache = <<>>
    /\ \/ tle_cache = <<>> /\ hist = [tle |-> ColdHist, name |-> ColdHist]
       \/ tle_cache = WarmTleCache /\ hist = [tle |-> WarmHist(WarmTle), name |-> ColdHist]

NextTle ==
    \/ \E i \in CallIds, response \in TleResponses : get_tle(i, response)
    \/ \E d \in TickSteps : Tick(d)

\* get_tle alone, as time passes
SpecTle == InitTle /\ [][NextTle]_vars

InitName ==
    /\ Started
    /\ tz = "utc"
    /\ geocode_api_key = "key"
    /\ tle_cache = <<>>
    /\ \/ name_cache = <<>> /\ hist = [tle |-> ColdHist, name |-> ColdHist]
       \/ name_cache = WarmNameCache /\ hist = [tle |-> ColdHist, name |-> WarmHist(ISS)]

NextName ==
    \E i \in CallIds, response \in CatalogResponses : get_name_from_norad_id(i, response)

\* get_name_from_norad_id alone
SpecName == InitName /\ [][NextName]_vars

\* the name patterns and the places the tools are called with
\* the element text of id 1 fetched at time 0
AgedTleCache == <<[key |-> 1, value |-> WarmTle, expires |-> ttl]>>

AgedHist ==
    [i \in CallIds |->
        IF i = 1
        THEN [fetched |-> [ok |-> TRUE, at |-> 0, value |-> WarmTle], since |-> {},
              hit |-> NeverHit]
        ELSE NoHist]

\* the caches empty, or the element cache holding one text whose ttl has elapsed
InitCached ==
    /\ ticks = 0
    /\ last = NoCall
    /\ pc = <<>>
    /\ job = <<>>
    /\ tz = "utc"
    /\ geocode_api_key \in {"", "key"}
    /\ name_cache = <<>>
    /\ id_cache = <<>>
    /\ wx_cache = <<>>
    /\ geo_cache = <<>>
    /\ \/ now = 0 /\ tle_cache = <<>> /\ hist = [tle |-> ColdHist, name |-> ColdHist]
       \/ now = ttl /\ tle_cache = AgedTleCache
                    /\ hist = [tle |-> AgedHist, name |-> ColdHist]

\* of each source, a successful answer, an empty one and a refusal
FewCatalogResponses ==
    {r \in CatalogResponses : ~r.error /\ Len(r.json) \in {0, 2}}
FewTleResponses ==
    {r \in TleResponses : ~r.error /\ r.text \in {WarmTle, <<"No data found">>}}
FewGeocodeResponses ==
    {r \in GeocodeResponses : ~r.error /\ Len(r.json) <= 1}

NextCached ==
    \/ \E i \in CallIds, response \in FewCatalogResponses :
            get_name_from_norad_id(i, response)
    \/ \E response \in FewCatalogResponses :
            get_norad_id_from_name(<<"i", "s">>, response)
    \/ \E i \in CallIds, response \in FewTleResponses : get_tle(i, response)
    \/ \E response \in FewGeocodeResponses :
            get_latitude_longitude_from_location_name("Fairfax", response)

\* the four cached lookups side by side
SpecCached == InitCached /\ [][NextCached]_vars

\* the passes the propagation source yields: three samples ten minutes apart, with
\* the elevations of a whole pass, of one cut short at its highest, and of a low one
Pass(first, elevations) ==
    [i \in 1..3 |->
        [epoch |-> first + (i - 1) * 600,
         elevation |-> elevations[i],
         azimuth |-> (first \div 100 + 90 * i) % 360]]

WholePass == <<20, 40, 20>>
CutPass == <<5, 40, 40>>
LowPass == <<5, 5, 5>>
HighPass == <<40, 60, 40>>

TransitLists ==
    {<<>>}
    \cup {<<Pass(3000, e)>> : e \in {WholePass, CutPass, LowPass}}
    \cup {<<Pass(3000, WholePass), Pass(9000, WholePass)>>,
          <<Pass(3000, CutPass), Pass(9000, LowPass)>>}
    \cup {<<Pass(3000, WholePass), Pass(9000, LowPass), Pass(15000, HighPass)>>}

Angles == {10, 30}

\* of the element source: an element set, a text that starts with "Error:", a refusal
TransitTleResponses ==
    {r \in TleResponses :
        /\ ~r.error
        /\ r.status_code = 200 => Len(r.text) = 3
        /\ r.status_code # 200 => r.text = <<>>}

\* of the weather source: a forecast for the day, a refusal
TransitWeatherResponses ==
    {r \in WeatherResponses :
        /\ ~r.error
        /\ r.status_code = 200 => r.data = FullDay}

Init ==
    /\ Started
    /\ tz \in {"utc", "dst"}
    /\ geocode_api_key = "key"
    /\ name_cache = <<>>
    /\ tle_cache = <<>>
    /\ hist = [tle |-> ColdHist, name |-> ColdHist]

\* the answers of the element source that get_transits goes on with
ElementSets == {r \in TransitTleResponses : r.status_code = 200 /\ r.text = WarmTle}

Next ==
    \/ \E response \in ElementSets, angle \in Angles, transits \in TransitLists,
          weather \in TransitWeatherResponses :
            get_transits(1, "38.9", "-77.0", angle, response, transits,
                         <<weather, weather, weather>>)
    \/ \E response \in TransitTleResponses \ ElementSets,
          weather \in TransitWeatherResponses :
            get_transits(1, "38.9", "-77.0", 10, response, <<Pass(3000, WholePass)>>,
                         <<weather, weather, weather>>)

\* get_transits, on a host in either time zone
Spec == Init /\ [][Next]_vars

\* the instants the weather is asked for
WeatherTimes == {3600, 9600}

InitWeather ==
    /\ Started
    /\ tz = "utc"
    /\ geocode_api_key = "key"
    /\ name_cache = <<>>
    /\ tle_cache = <<>>
    /\ hist = [tle |-> ColdHist, name |-> ColdHist]

NextWeather ==
    \/ \E time_dt \in WeatherTimes, response \in WeatherResponses :
            get_weather_forecast("38.9", "-77.0", time_dt, response)
    \/ \E d \in TickSteps : Tick(d)

\* get_weather_forecast alone, as time passes
SpecWeather == InitWeather /\ [][NextWeather]_vars

NamePatterns == {<<"i", "s">>, <<"O", "A">>, <<"x">>, <<>>}

InitIds ==
    /\ Started
    /\ tz = "utc"
    /\ geocode_api_key = "key"
    /\ name_cache = <<>>
    /\ tle_cache = <<>>
    /\ hist = [tle |-> ColdHist, name |-> ColdHist]

NextIds ==
    \E n \in NamePatterns, response \in CatalogResponses :
        get_norad_id_from_name(n, response)

\* get_norad_id_from_name alone
SpecIds == InitIds /\ [][NextIds]_vars

\* the three caches without expiry, each full: of the names of ids 1..maxsize, of
\* the ids of maxsize two-digit name patterns, of the places "place 1" ..
Digits == <<"0", "1", "2", "3", "4", "5", "6", "7", "8", "9">>

WarmPattern(i) == <<Digits[((i - 1) \div Len(Digits)) + 1], Digits[((i - 1) % Len(Digits)) + 1]>>

WarmPlace(i) == "place " \o ToString(i)

WarmIdCache == [i \in WarmIds |-> [key |-> WarmPattern(i), value |-> <<"25544">>]]

WarmGeoCache ==
    [i \in WarmIds |->
        [key |-> WarmPlace(i),
         value |-> <<"Latitude: ", "38.89", ", Longitude: ", "-77.03">>]]

\* the caches were filled at time 0; it is then, or a ttl later
InitLru ==
    /\ now \in {0, ttl}
    /\ ticks = 0
    /\ last = NoCall
    /\ pc = <<>>
    /\ job = <<>>
    /\ tz = "utc"
    /\ geocode_api_key = "key"
    /\ tle_cache = <<>>
    /\ wx_cache = <<>>
    /\ name_cache = WarmNameCache
    /\ id_cache = WarmIdCache
    /\ geo_cache = WarmGeoCache
    /\ hist = [tle |-> ColdHist, name |-> WarmHist(ISS)]

NextLru ==
    \/ \E i \in CallIds, response \in FewCatalogResponses :
            get_name_from_norad_id(i, response)
    \/ \E response \in FewCatalogResponses :
            get_norad_id_from_name(<<"i", "s">>, response)
    \/ \E l \in {WarmPlace(1), "Fairfax"}, response \in FewGeocodeResponses :
            response.status_code = 200
            /\ get_latitude_longitude_from_location_name(l, response)

\* the three caches without expiry, from full
SpecLru == InitLru /\ [][NextLru]_vars

ApiKeys == {"", "key"}

PlaceNames == {"London", "Fairfax"}

InitGeocode ==
    /\ Started
    /\ tz = "utc"
    /\ geocode_api_key \in ApiKeys
    /\ name_cache = <<>>
    /\ tle_cache = <<>>
    /\ hist = [tle |-> ColdHist, name |-> ColdHist]

NextGeocode ==
    \/ \E l \in PlaceNames, response \in GeocodeResponses :
            get_latitude_longitude_from_location_name(l, response)
    \/ \E key \in ApiKeys : set_geocode_api_key(key)

\* the geocoding tool alone, while the configured key may change
SpecGeocode == InitGeocode /\ [][NextGeocode]_vars

(***************************************************************************)
(* Concurrent invocations.  The tools are wrapped by cached(cache=...)     *)
(* with no lock, so an invocation goes through the wrapper's steps on its  *)
(* own: it enters the cache's __getitem__ and leaves it with a hit or a    *)
(* miss, runs the tool's body on a miss, then enters the cache's           *)
(* __setitem__ and leaves it with the value stored.  Another invocation    *)
(* can run between any two of these steps.                                 *)
(***************************************************************************)
Threads == {"a", "b"}

ConcurrentTools == {"get_tle", "get_name_from_norad_id"}

NoOut == [kind |-> "none", value |-> <<>>]

Idle == [op |-> "none", key |-> 0, out |-> NoOut, http |-> 0, fetched |-> NoOut, victim |-> 0]

\* the tool invocation starts: the wrapper enters cache.__getitem__
ConcCall(t, op, key) ==
    /\ pc[t] = "idle"
    /\ pc' = [pc EXCEPT ![t] = "getitem"]
    /\ job' = [job EXCEPT ![t] = [Idle EXCEPT !.op = op, !.key = key]]
    /\ UNCHANGED <<now, tz, geocode_api_key, name_cache, id_cache, tle_cache, wx_cache,
                   geo_cache, last, hist, ticks>>

\* cache.__getitem__ comes back: with the value, which the wrapper returns, or
\* with a KeyError
ConcGetItem(t) ==
    /\ pc[t] = "getitem"
    /\ IF job[t].op = "get_tle"
       THEN /\ tle_cache' = ttl_getlink(tle_cache, job[t].key)
            /\ UNCHANGED name_cache
            /\ IF ttl_hit(tle_cache, job[t].key, now)
               THEN /\ pc' = [pc EXCEPT ![t] = "idle"]
                    /\ job' = [job EXCEPT
                                 ![t].out = Return(Entry(tle_cache, job[t].key).value)]
               ELSE /\ pc' = [pc EXCEPT ![t] = "body"]
                    /\ UNCHANGED job
       ELSE /\ name_cache' = lru_touch(name_cache, job[t].key)
            /\ UNCHANGED tle_cache
            /\ IF job[t].key \in Keys(name_cache)
               THEN /\ pc' = [pc EXCEPT ![t] = "idle"]
                    /\ job' = [job EXCEPT
                                 ![t].out = Return(Entry(name_cache, job[t].key).value)]
               ELSE /\ pc' = [pc EXCEPT ![t] = "body"]
                    /\ UNCHANGED job
    /\ UNCHANGED <<now, tz, geocode_api_key, id_cache, wx_cache, geo_cache, last, hist,
                   ticks>>

\* the tool's body runs: it raises, or its value goes to cache.__setitem__
ConcBody(t, response) ==
    /\ pc[t] = "body"
    /\ LET out == IF job[t].op = "get_tle" THEN tle_body(job[t].key, response)
                  ELSE name_body(job[t].key, response)
       IN  /\ job' = [job EXCEPT ![t].out = out, ![t].http = 1, ![t].fetched = out]
           /\ pc' = [pc EXCEPT ![t] = IF out.kind = "raise" THEN "idle" ELSE "setitem"]
    /\ UNCHANGED <<now, tz, geocode_api_key, name_cache, id_cache, tle_cache, wx_cache,
                   geo_cache, last, hist, ticks>>

\* the cache of the tool a thread is running, with its expired entries gone as
\* TTLCache.__setitem__ and TTLCache.popitem drop them first
ConcCache(t) ==
    IF job[t].op = "get_tle" THEN expire(tle_cache, now) ELSE name_cache

\* Cache.__setitem__ finds the key missing and the cache full
NeedsRoom(t) == job[t].key \notin Keys(ConcCache(t)) /\ Len(ConcCache(t)) + 1 > maxsize

\* cache.__setitem__: the value is stored and the wrapper returns it, or, for a
\* new key in a full cache, popitem reads the least recently used key
ConcSetItem(t) ==
    /\ pc[t] = "setitem"
    /\ IF NeedsRoom(t)
       THEN /\ job' = [job EXCEPT ![t].victim = Head(ConcCache(t)).key]
            /\ pc' = [pc EXCEPT ![t] = "popitem"]
            /\ UNCHANGED <<name_cache, tle_cache>>
       ELSE /\ IF job[t].op = "get_tle"
               THEN /\ tle_cache' = ttl_setitem(tle_cache, job[t].key, job[t].out.value, now)
                    /\ UNCHANGED name_cache
               ELSE /\ name_cache' = lru_setitem(name_cache, job[t].key, job[t].out.value)
                    /\ UNCHANGED tle_cache
            /\ pc' = [pc EXCEPT ![t] = "idle"]
            /\ UNCHANGED job
    /\ UNCHANGED <<now, tz, geocode_api_key, id_cache, wx_cache, geo_cache, last, hist,
                   ticks>>

\* popitem goes on to self.pop(key) with the key it read: the entry is dropped and
\* the value stored, or the key is gone by now and pop raises KeyError, which the
\* wrapper, catching ValueError only, lets through to the caller
ConcPopItem(t) ==
    /\ pc[t] = "popitem"
    /\ IF job[t].victim \in Keys(ConcCache(t))
       THEN /\ IF job[t].op = "get_tle"
               THEN /\ tle_cache' = ttl_setitem(Without(tle_cache, job[t].victim),
                                                job[t].key, job[t].out.value, now)
                    /\ UNCHANGED name_cache
               ELSE /\ name_cache' = lru_setitem(Without(name_cache, job[t].victim),
                                                 job[t].key, job[t].out.value)
                    /\ UNCHANGED tle_cache
            /\ UNCHANGED job
       ELSE /\ job' = [job EXCEPT ![t].out = Raise("KeyError", job[t].victim)]
            /\ UNCHANGED <<name_cache, tle_cache>>
    /\ pc' = [pc EXCEPT ![t] = "idle"]
    /\ UNCHANGED <<now, tz, geocode_api_key, id_cache, wx_cache, geo_cache, last, hist,
                   ticks>>

\* catalog answers with two different first records, or none
ConcCatalogResponses == {r \in CatalogResponses : ~r.error /\ r.status_code = 200 /\ Len(r.json) <= 2}

InitConc ==
    /\ now = 0
    /\ ticks = 0
    /\ last = NoCall
    /\ tz = "utc"
    /\ geocode_api_key = "key"
    /\ \/ name_cache = <<>> /\ tle_cache = <<>>
       \/ name_cache = WarmNameCache /\ tle_cache = WarmTleCache
    /\ id_cache = <<>>
    /\ wx_cache = <<>>
    /\ geo_cache = <<>>
    /\ hist = [tle |-> ColdHist, name |-> ColdHist]
    /\ pc = [t \in Threads |-> "idle"]
    /\ job = [t \in Threads |-> Idle]

NextConc ==
    \E t \in Threads :
        \/ \E op \in ConcurrentTools, key \in CallIds : ConcCall(t, op, key)
        \/ ConcGetItem(t)
        \/ \E response \in FewTleResponses :
                job[t].op = "get_tle" /\ ConcBody(t, response)
        \/ \E response \in ConcCatalogResponses :
                job[t].op = "get_name_from_norad_id" /\ ConcBody(t, response)
        \/ ConcSetItem(t)
        \/ ConcPopItem(t)

\* two invocations side by side, as the hosting layer may dispatch them
SpecConc == InitConc /\ [][NextConc]_vars

(***************************************************************************)
(* C3.  After a successful fetch of an id, get_tle serves the stored text  *)
(* without a request for less than the ttl, and requests again after it.   *)
(***************************************************************************)
\* the last invocation is a get_tle for an id that was fetched before
TleRefetch == last.op = "get_tle" /\ last.pre.fetched.ok

\* the age of that fetch when the invocation was made
TleAge == last.at - last.pre.fetched.at

TleServedFromCache ==
    /\ last.http = 0
    /\ last.out.kind = "return"
    /\ last.out.value = last.pre.fetched.value

\* C3: every call made less than 2 hours after the fetch, with fewer than maxsize
\* other ids looked up since the fetch (none, when the calls are all for the same
\* id), returns the stored string without an HTTP request; hits in between do not
\* change the entry's age, so a call made once the ttl has elapsed since the fetch
\* issues a new request.
C3_TleCachedForTtl ==
    TleRefetch =>
        /\ (TleAge < ttl /\ Cardinality(last.pre.since) < maxsize) => TleServedFromCache
        /\ TleAge >= ttl => last.http = 1

\* the id was served from the cache half a ttl after its fetch, and the call made a
\* ttl after the fetch has issued a request
C3_Witness ==
    /\ TleRefetch
    /\ last.pre.hit.ok
    /\ last.pre.hit.at > last.pre.fetched.at
    /\ last.pre.hit.at - last.pre.fetched.at < ttl
    /\ TleAge >= ttl
    /\ last.http = 1


(***************************************************************************)
(* C5.  get_name_from_norad_id returns the first record's name, and serves *)
(* it from the cache afterwards.                                           *)
(***************************************************************************)
NameCall == last.op = "get_name_from_norad_id"

NameServedFromCache ==
    /\ last.http = 0
    /\ last.out.kind = "return"
    /\ last.out.value = last.pre.fetched.value

\* C5: a call that queries the catalog and gets a successful, non-empty response
\* returns the OBJECT_NAME of its first record; and once a call for an id has
\* succeeded, a later call for it returns the same name without an HTTP request, as
\* long as fewer than maxsize other ids were looked up since the id was last used.
C5_NameFromCatalogThenCache ==
    NameCall =>
        /\ (/\ last.http = 1
            /\ ~last.response.error
            /\ last.response.status_code = 200
            /\ last.response.json # <<>>)
                => /\ last.out.kind = "return"
                   /\ last.out.value = last.response.json[1].OBJECT_NAME
        /\ (last.pre.fetched.ok /\ Cardinality(last.pre.since) < maxsize)
                => NameServedFromCache

\* a hit for an id with maxsize - 1 other ids looked up since its last use
C5_Witness ==
    /\ NameCall
    /\ last.pre.fetched.ok
    /\ Cardinality(last.pre.since) = maxsize - 1
    /\ NameServedFromCache


(***************************************************************************)
(* C4.  A failed fetch is never cached.                                    *)
(***************************************************************************)
Taxonomy == {"APIError", "NoDataFoundError", "ConfigurationError"}

CachedTools ==
    {"get_name_from_norad_id", "get_norad_id_from_name", "get_tle",
     "get_latitude_longitude_from_location_name"}

\* the last invocation was of a cached tool and raised an error of the taxonomy
FailedLookup(l) ==
    /\ l.op \in CachedTools
    /\ l.out.kind = "raise"
    /\ l.out.value.type \in Taxonomy

\* the keys a tool's cache serves after the step
ServedKeysAfter(op) ==
    CASE op = "get_name_from_norad_id" -> Keys(name_cache')
      [] op = "get_norad_id_from_name" -> Keys(id_cache')
      [] op = "get_tle" -> Keys(expire(tle_cache', now'))
      [] op = "get_latitude_longitude_from_location_name" -> Keys(geo_cache')

\* an invocation that fails leaves what the caches serve as it was, and its key
\* unserved
FailureLeavesCaches ==
    (last'.seq # last.seq /\ FailedLookup(last')) =>
        /\ name_cache' = name_cache
        /\ id_cache' = id_cache
        /\ geo_cache' = geo_cache
        /\ expire(tle_cache', now') = expire(tle_cache, now)
        /\ last'.key \notin ServedKeysAfter(last'.op)

\* the invocation after a failed one, of the same tool with the same argument, runs
\* the tool's body again: it issues the request, or stops at the missing API key
FailureNotReplayed ==
    (/\ FailedLookup(last)
     /\ last'.seq # last.seq
     /\ last'.op = last.op
     /\ last'.key = last.key) =>
        \/ last'.http = 1
        \/ last'.out.kind = "raise" /\ last'.out.value.type = "ConfigurationError"

\* C4: when one of the four cached tools raises APIError, NoDataFoundError or
\* ConfigurationError, its cache is left unchanged, and the next call with the same
\* argument performs the fetch again instead of replaying the failure.
C4_FailureNotCached == [][FailureLeavesCaches /\ FailureNotReplayed]_vars

\* get_tle has failed for an id whose text, fetched a ttl ago, is still held by its
\* cache, after successful lookups of the other tools
C4_Witness ==
    /\ FailedLookup(last)
    /\ last.op = "get_tle"
    /\ last.key \in Keys(tle_cache)
    /\ name_cache # <<>>
    /\ id_cache # <<>>
    /\ geo_cache # <<>>


(***************************************************************************)
(* The windows of get_transits.                                            *)
(***************************************************************************)
\* the last invocation is a get_transits that returned its list of windows
TransitsListed == last.op = "get_transits" /\ last.returns = "list"

\* the clipped duration of the i-th pass the propagation source yielded
ClippedDuration(i) == duration(above(last.transits[i], last.angle))

\* the passes with a clipped duration above 0
Lasting == {i \in 1..Len(last.transits) : ClippedDuration(i) > 0}

\* C1: get_transits never returns a window whose duration_seconds is <= 0, and
\* when every pass has a clipped duration of 0 or less the list is empty.
C1_NoWindowWithoutDuration ==
    TransitsListed =>
        /\ \A i \in 1..Len(last.out.value) : last.out.value[i].duration_seconds > 0
        /\ Lasting = {} => last.out.value = <<>>

\* one pass that only touches the angle (duration exactly 0), and an empty list
C1_Witness ==
    /\ TransitsListed
    /\ Len(last.transits) = 1
    /\ peak(last.transits[1]).elevation >= last.angle
    /\ ClippedDuration(1) = 0
    /\ last.out.value = <<>>

\* C2 as claimed: every window returned has start_time < culmination_time <
\* end_time.
C2_AsClaimed ==
    TransitsListed =>
        \A i \in 1..Len(last.out.value) :
            /\ last.out.value[i].start_time < last.out.value[i].culmination_time
            /\ last.out.value[i].culmination_time < last.out.value[i].end_time

\* C7 as claimed: get_transits returns a list of windows or raises an error of the
\* taxonomy; it never returns a string.
C7_AsClaimed ==
    last.op = "get_transits" =>
        \/ last.returns = "list"
        \/ last.returns = "raise" /\ last.out.value.type \in Taxonomy

\* C8: when get_tle fails inside get_transits, get_transits raises the same error
\* (kind and message), the propagation source is not called and
\* get_weather_forecast is not called.
C8_TleErrorPropagates ==
    (last.op = "get_transits" /\ last.tle.kind = "raise") =>
        /\ last.returns = "raise"
        /\ last.out = last.tle
        /\ ~last.propagated
        /\ last.weather_calls = 0
        /\ last.weather_http = 0

\* get_tle has failed inside a get_transits for which passes were at hand
C8_Witness ==
    /\ last.op = "get_transits"
    /\ last.tle.kind = "raise"
    /\ last.tle.value.type = "APIError"
    /\ Lasting # {}
    /\ last.returns = "raise"

\* the strings of get_weather_forecast: a summary, or one of the fallbacks
IsSummary(text) == Len(text) = 2 /\ text[2] = "% cloud cover"

IsFallback(text) ==
    /\ Len(text) >= 1
    /\ text[1] \in {"Weather API request failed: ",
                    "An error occurred while fetching weather: ",
                    "Weather data not available.",
                    "Forecast for the specific hour not found."}

\* C10: whatever the weather lookups come to, get_transits returns exactly one
\* window for each pass whose clipped duration is > 0, and each window's
\* weather_forecast is the summary or a fallback string.
C10_WeatherNeverDropsWindow ==
    (last.op = "get_transits" /\ last.propagated) =>
        /\ last.returns = "list"
        /\ Len(last.out.value) = Cardinality(Lasting)
        /\ \A i \in 1..Len(last.out.value) :
              \/ IsSummary(last.out.value[i].weather_forecast)
              \/ IsFallback(last.out.value[i].weather_forecast)

\* two windows, one with a fallback and one with a summary
C10_Witness ==
    /\ TransitsListed
    /\ Len(last.out.value) = 2
    /\ IsFallback(last.out.value[1].weather_forecast)
    /\ IsSummary(last.out.value[2].weather_forecast)

(***************************************************************************)
(* C9.  get_weather_forecast never raises.                                 *)
(***************************************************************************)
\* C9: whatever the weather request comes to, get_weather_forecast returns a
\* string.
C9_WeatherNeverRaises ==
    last.op = "get_weather_forecast" =>
        /\ last.out.kind = "return"
        /\ IsSummary(last.out.value) \/ IsFallback(last.out.value)

\* the request has been refused, and a string came back
C9_Witness ==
    /\ last.op = "get_weather_forecast"
    /\ last.http = 1
    /\ last.response.status_code = 503
    /\ last.out.kind = "return"


(***************************************************************************)
(* C6.  Mutual exclusion on a cache.                                       *)
(***************************************************************************)
\* the invocation is inside a lookup or an insert/evict step of its tool's cache
InCache(t) == pc[t] \in {"getitem", "setitem", "popitem"}

\* C6 as claimed: no two invocations are ever inside a lookup or insert/evict step
\* of the same cache at the same time.
C6_AsClaimed ==
    \A t, u \in Threads :
        (t # u /\ InCache(t) /\ InCache(u)) => job[t].op # job[u].op

(***************************************************************************)
(* C11.  The strings of get_weather_forecast, by class of failure.         *)
(***************************************************************************)
\* the last invocation is a get_weather_forecast that made its request
WeatherRequested == last.op = "get_weather_forecast" /\ last.http = 1

\* the request came back with a document that has the three hourly fields
HasFields(d) == d.parses /\ d.has_hourly /\ d.has_time /\ d.has_cloud_cover

\* the document has no bucket for the hour: the hour is not listed, or the
\* cloud_cover list ends before it
LacksHour(d, time_dt) ==
    \/ hour_str(time_dt) \notin Range(d.time)
    \/ index(d.time, hour_str(time_dt)) > Len(d.cloud_cover)

\* the answer is a document: no connection failure, a success status
Answered(r) == ~r.error /\ r.status_code = 200

BeginsWith(out, prefix) == out.kind = "return" /\ Len(out.value) >= 1 /\ out.value[1] = prefix

Exactly(out, text) == out.kind = "return" /\ out.value = <<text>>

\* what the claim and the code agree on: the two exact strings
FieldAndHourStrings ==
    WeatherRequested =>
        /\ (Answered(last.response) /\ last.response.data.parses
                /\ ~HasFields(last.response.data))
             => Exactly(last.out, "Weather data not available.")
        /\ (Answered(last.response) /\ HasFields(last.response.data)
                /\ LacksHour(last.response.data, last.key[3]))
             => Exactly(last.out, "Forecast for the specific hour not found.")

\* C11 as claimed: every transport failure (a connection failure, a non-success
\* status) yields a string beginning "Weather API request failed: ", missing hourly
\* fields yield exactly "Weather data not available." and a missing hour bucket
\* exactly "Forecast for the specific hour not found.".
C11_AsClaimed ==
    /\ FieldAndHourStrings
    /\ WeatherRequested =>
          (~Answered(last.response) =>
              BeginsWith(last.out, "Weather API request failed: "))

\* C11, amended: a non-success status yields a string beginning "Weather API
\* request failed: "; a connection failure or a body that does not parse yields a
\* string beginning "An error occurred while fetching weather: "; missing hourly
\* fields yield exactly "Weather data not available." and a missing hour bucket (the
\* hour not listed, or the cloud_cover list too short) exactly "Forecast for the
\* specific hour not found.".
C11_FailureStrings ==
    /\ FieldAndHourStrings
    /\ WeatherRequested =>
          /\ (~last.response.error /\ last.response.status_code # 200)
                => BeginsWith(last.out, "Weather API request failed: ")
          /\ (last.response.error
                \/ (Answered(last.response) /\ ~last.response.data.parses))
                => BeginsWith(last.out, "An error occurred while fetching weather: ")

\* the connection has failed, and the generic string came back
C11_Witness ==
    /\ WeatherRequested
    /\ last.response.error
    /\ BeginsWith(last.out, "An error occurred while fetching weather: ")

(***************************************************************************)
(* C12.  Geocoding without an API key.                                     *)
(***************************************************************************)
\* C12 as claimed: a call of get_latitude_longitude_from_location_name made while no
\* API key is configured raises ConfigurationError and issues no HTTP request,
\* whatever calls came before.
C12_AsClaimed ==
    (last.op = "get_latitude_longitude_from_location_name" /\ last.api_key = "") =>
        /\ last.out.kind = "raise"
        /\ last.out.value.type = "ConfigurationError"
        /\ last.http = 0

(***************************************************************************)
(* C13.  The identifiers get_norad_id_from_name returns.                   *)
(***************************************************************************)
\* the last invocation is a get_norad_id_from_name that got a successful catalog
\* response
IdsFetched ==
    /\ last.op = "get_norad_id_from_name"
    /\ last.http = 1
    /\ ~last.response.error
    /\ last.response.status_code = 200

\* the name contains the pattern, letters compared without their case
ContainsIgnoringCase(name, pattern) ==
    \E off \in 0..(Len(name) - Len(pattern)) :
        \A j \in 1..Len(pattern) : LowerChar(name[off + j]) = LowerChar(pattern[j])

\* the positions of the records of the response whose name contains the pattern
Surviving ==
    {i \in 1..Len(last.response.json) :
        ContainsIgnoringCase(last.response.json[i].OBJECT_NAME, last.key)}

\* the identifiers listed in a returned text: every other chunk, between the ", "
ListedIds(text) == [k \in 1..((Len(text) + 1) \div 2) |-> text[2 * k - 1]]

\* the k-th surviving position, in the order of the response
NthSurviving(k) ==
    CHOOSE i \in Surviving : Cardinality({j \in Surviving : j <= i}) = k

\* C13: on a successful catalog response get_norad_id_from_name returns exactly the
\* identifiers of the records whose OBJECT_NAME contains the pattern
\* case-insensitively, in the order of the response, joined by ", ", and raises
\* NoDataFoundError when no record survives.
C13_IdsOfMatchingNames ==
    IdsFetched =>
        IF Surviving = {}
        THEN last.out.kind = "raise" /\ last.out.value.type = "NoDataFoundError"
        ELSE /\ last.out.kind = "return"
             /\ Len(last.out.value) = 2 * Cardinality(Surviving) - 1
             /\ \A k \in 1..Cardinality(Surviving) :
                   /\ ListedIds(last.out.value)[k] =
                        str(last.response.json[NthSurviving(k)].NORAD_CAT_ID)
                   /\ k > 1 => last.out.value[2 * k - 2] = ", "

\* of three records the first and the third survive a lower-case pattern
C13_Witness ==
    /\ IdsFetched
    /\ last.key = <<"i", "s">>
    /\ Len(last.response.json) = 3
    /\ last.out = Return(<<"40000", ", ", "25544">>)

(***************************************************************************)
(* C14, C15.  What the weather cache serves again.                         *)
(***************************************************************************)
\* the step is an invocation of get_weather_forecast that follows one for the same
\* latitude, longitude and instant, with no other invocation in between
WeatherAgain ==
    /\ last.op = "get_weather_forecast"
    /\ last'.seq # last.seq
    /\ last'.op = "get_weather_forecast"
    /\ last'.key = last.key

\* C14 as claimed: a summary stored by a weather request is no longer served once it
\* is older than the ttl; the call made then performs a new weather request.
C14_AsClaimed ==
    [][(WeatherAgain /\ last.http = 1 /\ IsSummary(last.out.value)
            /\ last'.at - last.at >= ttl)
          => last'.http = 1]_vars

\* C15 as claimed: after get_weather_forecast has returned a failure fallback
\* string, the next call with the same arguments performs a new weather request.
C15_AsClaimed ==
    [][(WeatherAgain /\ IsFallback(last.out.value)) => last'.http = 1]_vars

(***************************************************************************)
(* C16.  duration_seconds and the two ends of a window.                    *)
(***************************************************************************)
\* C16 as claimed: for every window returned, duration_seconds equals end_time
\* minus start_time, in seconds.
C16_AsClaimed ==
    TransitsListed =>
        \A i \in 1..Len(last.out.value) :
            last.out.value[i].duration_seconds =
                last.out.value[i].end_time - last.out.value[i].start_time

(***************************************************************************)
(* C17.  The order of the windows.                                         *)
(***************************************************************************)
\* the k-th pass with a clipped duration above 0, in the order of the propagation
\* source
NthLasting(k) == CHOOSE i \in Lasting : Cardinality({j \in Lasting : j <= i}) = k

\* the window is the one of the i-th pass: its ends and its highest elevation
WindowOfPass(w, i) ==
    LET t == above(last.transits[i], last.angle)
    IN  /\ w.start_time = fromtimestamp(start(t))
        /\ w.end_time = fromtimestamp(end(t))
        /\ w.duration_seconds = duration(t)
        /\ w.max_elevation = peak(t).elevation

\* C17: the list get_transits returns holds the windows of the passes that last, in
\* the order in which the propagation source produced them, each once; with no pass
\* at all it returns the empty list.
C17_OrderOfPasses ==
    (last.op = "get_transits" /\ last.propagated) =>
        /\ last.returns = "list"
        /\ Len(last.out.value) = Cardinality(Lasting)
        /\ \A k \in 1..Len(last.out.value) :
              WindowOfPass(last.out.value[k], NthLasting(k))
        /\ last.transits = <<>> => last.out.value = <<>>

\* of three passes the first and the third last, and their windows come in that
\* order
C17_Witness ==
    /\ TransitsListed
    /\ Len(last.transits) = 3
    /\ Lasting = {1, 3}
    /\ Len(last.out.value) = 2
    /\ last.out.value[1].max_elevation < last.out.value[2].max_elevation

(***************************************************************************)
(* C18.  The caches without expiry: capacity, eviction, no expiry.         *)
(***************************************************************************)
\* the step is an invocation of the tool op, whose cache goes from c to d:
\* a key the cache holds is served from it, whatever the time, and no key leaves; a
\* new key that comes
\* into a full cache makes exactly one key leave, which is not the key that the
\* invocation before, of the same tool, has just used; into a cache with room, none
LruStep(op, c, d) ==
    (last'.seq # last.seq /\ last'.op = op) =>
        IF last'.key \in Keys(c)
        THEN last'.http = 0 /\ Keys(d) = Keys(c)
        ELSE IF last'.key \notin Keys(d) THEN d = c
        ELSE IF Len(c) < maxsize THEN Keys(d) = Keys(c) \cup {last'.key}
        ELSE /\ Len(d) = maxsize
             /\ Cardinality(Keys(c) \ Keys(d)) = 1
             /\ (last.op = op /\ last.key \in Keys(c)) => last.key \in Keys(d)

\* an id whose name leaves the cache has seen maxsize - 1 other ids used since its
\* own last use: it was the least recently used one
NameEvictedLast ==
    \A i \in CallIds :
        (i \in Keys(name_cache) /\ i \notin Keys(name_cache')) =>
            Cardinality(hist.name[i].since) >= maxsize - 1

AtMostMaxsize ==
    /\ Len(name_cache) <= maxsize
    /\ Len(id_cache) <= maxsize
    /\ Len(geo_cache) <= maxsize

\* C18: the caches of the name lookup, the id lookup and the geocoding hold at most
\* maxsize entries each; a new key that comes into a full cache evicts exactly one
\* entry, the least recently used one; and an entry is served however long ago it
\* was stored.
C18_LruCapacity ==
    /\ []AtMostMaxsize
    /\ [][/\ LruStep("get_name_from_norad_id", name_cache, name_cache')
          /\ LruStep("get_norad_id_from_name", id_cache, id_cache')
          /\ LruStep("get_latitude_longitude_from_location_name", geo_cache, geo_cache')
          /\ NameEvictedLast]_vars

\* after a ttl and more, a key used just before is served from the full geocoding
\* cache, which has evicted another key for a new place
C18_Witness ==
    /\ now >= ttl
    /\ last.op = "get_latitude_longitude_from_location_name"
    /\ last.key = WarmPlace(1)
    /\ last.http = 0
    /\ "Fairfax" \in Keys(geo_cache)
    /\ WarmPlace(2) \notin Keys(geo_cache)
    /\ Len(geo_cache) = maxsize

(***************************************************************************)
(* C19.  The outcome of get_tle on a miss.                                 *)
(***************************************************************************)
\* the last invocation is a get_tle whose request got a response
TleAnswered == last.op = "get_tle" /\ last.http = 1 /\ ~last.response.error

\* v is the text without its carriage returns and without the whitespace at its
\* end
Cleaned(v, text) ==
    LET kept == {i \in 1..Len(text) : text[i] # "\r"}
        nth(k) == CHOOSE i \in kept : Cardinality({j \in kept : j <= i}) = k
    IN  /\ Len(v) <= Cardinality(kept)
        /\ \A k \in 1..Len(v) : v[k] = text[nth(k)]
        /\ \A k \in (Len(v) + 1)..Cardinality(kept) : text[nth(k)] \in Whitespace
        /\ v # <<>> => v[Len(v)] \notin Whitespace

\* C19: on a miss, a status other than 200 raises APIError whatever the body;
\* otherwise a body with "No data found" in it raises NoDataFoundError; otherwise
\* get_tle returns the body without its carriage returns and its trailing
\* whitespace, and that is the value its cache holds.
C19_TleOutcome ==
    TleAnswered =>
        IF last.response.status_code # 200
        THEN last.out.kind = "raise" /\ last.out.value.type = "APIError"
        ELSE IF \E i \in 1..Len(last.response.text) :
                    last.response.text[i] = "No data found"
        THEN last.out.kind = "raise" /\ last.out.value.type = "NoDataFoundError"
        ELSE /\ last.out.kind = "return"
             /\ Cleaned(last.out.value, last.response.text)
             /\ last.key \in Keys(tle_cache)
             /\ Entry(tle_cache, last.key).value = last.out.value

\* a body with carriage returns and a line end at its end came back cleaned
C19_Witness ==
    /\ TleAnswered
    /\ last.response.text = <<"1 25544U", "\r", "\n", "2 25544", "\r", "\n">>
    /\ last.out = Return(<<"1 25544U", "\n", "2 25544">>)

(***************************************************************************)
(* C20.  The fields of a window.                                           *)
(***************************************************************************)
\* the samples of the i-th pass that are in its clipped window: those between the
\* window's ends
SamplesOfWindow(i) ==
    LET t == above(last.transits[i], last.angle)
    IN  {s \in Range(last.transits[i]) : start(t) <= s.epoch /\ s.epoch <= end(t)}

\* the earliest of the highest samples, the earliest sample, the latest sample
Highest(samples) ==
    CHOOSE s \in samples :
        \A r \in samples :
            \/ r.elevation < s.elevation
            \/ r.elevation = s.elevation /\ s.epoch <= r.epoch

Earliest(samples) == CHOOSE s \in samples : \A r \in samples : s.epoch <= r.epoch

Latest(samples) == CHOOSE s \in samples : \A r \in samples : r.epoch <= s.epoch

\* C20: for each window returned, max_elevation, max_elevation_azimuth and
\* culmination_time are those of the peak sample of the clipped window of its pass,
\* start_azimuth is the azimuth of that window's first sample and end_azimuth that
\* of its last sample: the same pass as the one of start_time and end_time.
C20_FieldsOfOnePass ==
    TransitsListed =>
        \A k \in 1..Len(last.out.value) :
            LET w == last.out.value[k]
                i == NthLasting(k)
                samples == SamplesOfWindow(i)
            IN  /\ WindowOfPass(w, i)
                /\ w.max_elevation = Highest(samples).elevation
                /\ w.max_elevation_azimuth = Highest(samples).azimuth
                /\ w.culmination_time = fromtimestamp(Highest(samples).epoch)
                /\ w.start_azimuth = Earliest(samples).azimuth
                /\ w.end_azimuth = Latest(samples).azimuth

\* two windows of a list of three passes, each with the azimuths of its own pass
C20_Witness ==
    /\ TransitsListed
    /\ Len(last.transits) = 3
    /\ Len(last.out.value) = 2
    /\ last.out.value[1].start_azimuth # last.out.value[2].start_azimuth
    /\ last.out.value[1].end_azimuth # last.out.value[2].end_azimuth
    /\ last.out.value[1].start_azimuth # last.out.value[1].end_azimuth

(***************************************************************************)
(* C21: two invocations of one cached tool, side by side, with the same    *)
(* uncached key                                                            *)
(***************************************************************************)
\* both threads are back from an invocation of the same tool with the same key, and
\* the body of each ran and returned a value
BothFetched(t, u) ==
    /\ t # u
    /\ pc[t] = "idle" /\ pc[u] = "idle"
    /\ job[t].op \in ConcurrentTools /\ job[t].op = job[u].op /\ job[t].key = job[u].key
    /\ job[t].fetched.kind = "return" /\ job[u].fetched.kind = "return"

EntriesFor(c, k) == {i \in 1..Len(c) : c[i].key = k}

\* C21: when two concurrent invocations of a cached tool with the same uncached key
\* both perform the fetch and both fetches succeed, each caller returns the value
\* of its own fetch and the cache afterwards holds exactly one entry for the key
C21_AsClaimed ==
    \A t \in Threads, u \in Threads :
        BothFetched(t, u) =>
            /\ job[t].out.kind = "return"
            /\ job[t].out.value = job[t].fetched.value
            /\ Cardinality(EntriesFor(ConcCache(t), job[t].key)) = 1

====
